---------------------------- MODULE Spec2Model ----------------------------
(***************************************************************************)
(* Resource provisioning of the parallel end-to-end test harness:          *)
(*   - the backend item store as seen through utils/api_client.py,         *)
(*   - SeedDataManager.create_seed_items_for_user run by concurrent        *)
(*     callers (utils/seed_data_manager.py),                               *)
(*   - the session fixtures auth_states / seed_data and the per-test       *)
(*     fixtures of tests/conftest.py.                                      *)
(* Strings are the program's strings; a dict is a function whose DOMAIN    *)
(* is its key set, the empty dict is << >>.                                *)
(***************************************************************************)
EXTENDS Integers, Sequences, FiniteSets, TLC

(***************************************************************************)
(* Bounds of the model.                                                    *)
(***************************************************************************)
\* concurrent callers of SeedDataManager.create_seed_items_for_user
NumCallers == 2
\* tests run by the modelled pytest session
MaxTests == 2
\* backend calls that end in a failure other than 409, over one run
MaxFaults == 1
\* pytest sessions run one after the other on the same machine
MaxSessions == 2
\* the largest worker ordinal k of the worker ids gw<k> that are resolved
MaxWorkerNum == 9
\* worker processes that run get_valid_auth_state for the same user
NumProcs == 2

(***************************************************************************)
(* Program constants.                                                      *)
(***************************************************************************)
\* APIClient._request(max_retries=3); create_item: range(1, 4)
MaxRetries == 3
\* get_user_for_worker: (worker_num % 8) + 1
PoolSize == 8
HTTP_CONFLICT == 409

SEED_DATA_PREFIX == "SEED_"
ItemTypes == <<"PHYSICAL", "DIGITAL", "SERVICE">>
Roles == {"ADMIN", "EDITOR", "VIEWER"}

(***************************************************************************)
(* String helpers: Python's `sub in s`, str.lower and str.capitalize on    *)
(* the strings the program applies them to.                                *)
(***************************************************************************)
Contains(s, sub) ==
    \E i \in 1..(Len(s) + 1 - Len(sub)) : SubSeq(s, i, i + Len(sub) - 1) = sub

Lower(s) ==
    CASE s = "ADMIN" -> "admin"
      [] s = "EDITOR" -> "editor"
      [] s = "VIEWER" -> "viewer"
      [] s = "PHYSICAL" -> "physical"
      [] s = "DIGITAL" -> "digital"
      [] s = "SERVICE" -> "service"
      [] OTHER -> s

Capitalize(s) ==
    CASE s = "PHYSICAL" -> "Physical"
      [] s = "DIGITAL" -> "Digital"
      [] s = "SERVICE" -> "Service"
      [] OTHER -> s

SeedKeys == {Lower(ItemTypes[i]) : i \in 1..Len(ItemTypes)}

\* dict[key] = value
Put(d, k, v) == (k :> v) @@ d
\* dict.get(key, default)
Get(d, k, default) == IF k \in DOMAIN d THEN d[k] ELSE default

(***************************************************************************)
(* Users: settings.get_user_email and the user table read by               *)
(* test_data.get_user_by_email.                                            *)
(***************************************************************************)
get_user_email(role, number) == Lower(role) \o ToString(number) \o "@test.com"

load_users ==
    {[email |-> get_user_email(r, n), role |-> r, number |-> n] :
        r \in Roles, n \in 1..PoolSize}

get_user_by_email(email) == CHOOSE u \in load_users : u.email = email

\* test_data.generate_seed_item_name (the name the lookups search for)
generate_seed_item_name(role, number, item_type) ==
    SEED_DATA_PREFIX \o Capitalize(item_type) \o "_" \o role \o ToString(number)

\* test_data.generate_item_data: the fields the provisioning reads
generate_item_data(name, item_type) ==
    [name |-> name, item_type |-> item_type]

(***************************************************************************)
(* The backend behind APIClient.  An item is                               *)
(*   [_id, name, is_active, created_by].                                   *)
(* POST /items answers 409 when an item of that name exists and stores a   *)
(* new active item otherwise; GET /items answers the items the caller may  *)
(* see, filtered by search term and status.                                *)
(***************************************************************************)
NameTaken(store, name) == \E it \in store : it.name = name

NewItem(id, name, email) ==
    [_id |-> id, name |-> name, is_active |-> TRUE, created_by |-> email]

\* Editors see the items they created; admins and viewers see all items.
Visible(email, it) ==
    get_user_by_email(email).role = "EDITOR" => it.created_by = email

StatusMatches(status, it) ==
    CASE status = "active" -> it.is_active
      [] status = "inactive" -> ~it.is_active
      [] OTHER -> TRUE

ListItems(store, email, search, status) ==
    {it \in store : /\ Visible(email, it)
                    /\ (search # "" => Contains(it.name, search))
                    /\ StatusMatches(status, it)}

\* The key under which GET /items returns the list ("data" or "items").
ListKeys == {"data", "items"}
ListResponse(key, found) == (key :> found)

\* Number of failing attempts of one call: the call ends in APIException
\* when all MaxRetries attempts fail, otherwise an attempt reaches the
\* backend and its answer is returned.
Exhausted(fails) == fails >= MaxRetries

\* str(e) of what APIClient.create_item raises
ConflictText == ToString(HTTP_CONFLICT) \o " Client Error: Conflict for url: /items"
ErrorTexts ==
    {"API call failed: /items (status: 500) - 500 Server Error: Internal Server Error for url: /items",
     "API call failed: /items (status: 400) - 400 Client Error: Bad Request for url: /items",
     "API call failed: /items (status: 0) - Read timed out. (read timeout=10)"}


(***************************************************************************)
(* State.                                                                  *)
(***************************************************************************)
VARIABLES
    items,        \* the backend's item store
    next_id,      \* the backend's next item id
    faults,       \* calls that failed so far (bounded by MaxFaults)
    pc,           \* caller -> position in create_seed_items_for_user
    user_email,   \* caller -> the user_email argument of its call
    idx,          \* caller -> index into ItemTypes of the loop in _create_*_items
    seed_items,   \* caller -> the seed_items dict being filled
    outcome,      \* caller -> "none" | "returned" | "raised"
    log,          \* caller -> what the call did (history, read by the properties only)
    \* --- one pytest session of tests/conftest.py ---
    is_local,         \* settings.IS_LOCAL
    worker_id,        \* PYTEST_XDIST_WORKER of the session's process
    roles_needed,     \* the roles the selected tests are marked with
    auth_file,        \* user -> the auth state cached on disk, or NoFile
    auth_phase,       \* the auth_states fixture: "unset" | "running" | "done" | "failed"
    auth_todo,        \* users the loop of auth_states has not reached yet
    auth_order,       \* the keys of auth_states_dict in insertion order
    auth_states_dict, \* user -> auth state
    login_count,      \* user -> calls of login_and_save_state (history)
    login_failed,     \* users whose login raised (history)
    seed_phase,       \* the seed_data fixture: "unset" | "running" | "done" | "failed"
    seed_i,           \* index into auth_order of the user seed_data is at
    seed_call,        \* the running create_seed_items_for_user call of the fixture
    seed_items_dict,  \* user -> seed items
    seed_log,         \* user -> what its seed call did (history)
    tests,            \* the tests started so far and what their fixtures gave them
    auth_log,         \* user -> what its last get_valid_auth_state call did (history)
    session_no,       \* number of the pytest session being run
    num_workers,      \* settings.NUM_WORKERS of the process
    \* --- calls of the worker mapping functions ---
    mapper_calls,     \* the last call, after the one before it if it had the same inputs
    \* --- one call of an APIClient method ---
    client_call,      \* the call being made or just ended, or NoCall
    client_log,       \* the status each attempt of the call got, in order (history)
    \* --- worker processes sharing the auth file of one user ---
    cache_file,       \* the auth file on disk
    cache_proc        \* process -> position in get_valid_auth_state and its locals

caller_vars == <<pc, user_email, idx, seed_items, outcome, log>>
backend_vars == <<items, next_id, faults>>
session_vars == <<is_local, worker_id, roles_needed, auth_file, auth_phase, auth_todo,
                  auth_order, auth_states_dict, login_count, login_failed, seed_phase,
                  seed_i, seed_call, seed_items_dict, seed_log, tests, auth_log,
                  session_no, num_workers>>
mapper_vars == <<mapper_calls>>
client_vars == <<client_call, client_log>>
cache_vars == <<cache_file, cache_proc>>
vars == <<items, next_id, faults, pc, user_email, idx, seed_items, outcome, log,
          is_local, worker_id, roles_needed, auth_file, auth_phase, auth_todo,
          auth_order, auth_states_dict, login_count, login_failed, seed_phase,
          seed_i, seed_call, seed_items_dict, seed_log, tests, auth_log,
          session_no, num_workers, mapper_calls, client_call, client_log,
          cache_file, cache_proc>>

Callers == 1..NumCallers

\* The identities callers are started with: slot 1 of every role, and a
\* second admin slot (the admin policy tells slot 1 from the others).
CallUsers ==
    {get_user_email(r, 1) : r \in Roles} \cup {get_user_email("ADMIN", 2)}

EmptyLog ==
    [creates |-> {}, conflicts |-> {}, create_errors |-> {},
     requery_failed |-> {}, requery_found |-> {}, lists |-> 0]

\* The auth file of a user does not exist; no call of
\* create_seed_items_for_user is in progress.
NoFile == [exists |-> FALSE]
NoCall == [running |-> FALSE]

\* The session part at rest (no session is run).
SessionIdle ==
    /\ is_local = TRUE
    /\ worker_id = "master"
    /\ roles_needed = {}
    /\ auth_file = << >>
    /\ auth_phase = "unset"
    /\ auth_todo = {}
    /\ auth_order = << >>
    /\ auth_states_dict = << >>
    /\ login_count = << >>
    /\ login_failed = {}
    /\ seed_phase = "unset"
    /\ seed_i = 1
    /\ seed_call = NoCall
    /\ seed_items_dict = << >>
    /\ seed_log = << >>
    /\ tests = << >>
    /\ auth_log = << >>
    /\ session_no = 1
    /\ num_workers = PoolSize

\* No call of the worker mapping functions was made.
MapperIdle == mapper_calls = << >>

\* No APIClient call is modelled; no process is at the shared auth file.
ClientIdle == client_call = NoCall /\ client_log = << >>
CacheIdle == cache_file = NoFile /\ cache_proc = << >>

(***************************************************************************)
(* SeedDataManager (utils/seed_data_manager.py).                           *)
(***************************************************************************)
\* create_seed_items_for_user, lines 107-133: which branch the role takes.
StrategyViewerAsEditor(role, email) ==
    IF role = "admin"
    THEN IF Contains(email, "admin1") THEN "admin_base" ELSE "reuse"
    ELSE "editor"

Strategy(role, email) ==
    IF role = "viewer" THEN "skip"
    ELSE IF role = "admin"
         THEN IF Contains(email, "admin1") THEN "admin_base" ELSE "reuse"
    ELSE IF role = "editor" THEN "editor"
    ELSE "none"

\* _create_admin_base_items / _create_editor_items: the name created.
SeedName(strategy, number, item_type) ==
    IF strategy = "admin_base"
    THEN "SEED_" \o item_type \o "_admin1"
    ELSE "SEED_" \o item_type \o "_editor" \o ToString(number)

CallStrategy(w) ==
    LET user == get_user_by_email(user_email[w])
    IN  Strategy(Lower(user.role), user_email[w])

CallName(w) ==
    SeedName(CallStrategy(w), get_user_by_email(user_email[w]).number, ItemTypes[idx[w]])

CallKey(w) == Lower(ItemTypes[idx[w]])

\* _create_safe, line 177: is the exception a conflict?
IsConflictNever(text) == FALSE

IsConflictAnyError(text) == TRUE

IsConflict(text) == Contains(text, "409") \/ Contains(text, "Conflict")

\* _create_safe, line 181
StatusParam(item_data) ==
    IF "is_active" \in DOMAIN item_data /\ item_data.is_active = FALSE
    THEN "inactive" ELSE "active"

\* _create_safe, lines 183-186: the exact item among the listed ones.
ExistingItemsKeyOnly(res, name) ==
    {i \in Get(res, "items", {}) : i.name = name}

Existing(res, name) ==
    {i \in Get(res, "data", Get(res, "items", {})) : i.name = name}

\* The outcomes of the attempts of one call that may still be chosen.
FailChoices ==
    {Exhausted(fails) : fails \in 0..MaxRetries} \ (IF faults < MaxFaults THEN {} ELSE {TRUE})

\* The loop of _create_*_items moves to the next type, or the call returns.
Advance(w) ==
    IF idx[w] < Len(ItemTypes)
    THEN /\ idx' = [idx EXCEPT ![w] = @ + 1]
         /\ pc' = [pc EXCEPT ![w] = "create"]
         /\ outcome' = outcome
    ELSE /\ idx' = idx
         /\ pc' = [pc EXCEPT ![w] = "done"]
         /\ outcome' = [outcome EXCEPT ![w] = "returned"]

\* create_seed_items_for_user up to the first backend call.  Callers are
\* interchangeable: they enter in the order of their numbers.
MCall(w, email) ==
    /\ pc[w] = "idle"
    /\ \A v \in Callers : v < w => pc[v] # "idle"
    /\ user_email' = [user_email EXCEPT ![w] = email]
    /\ seed_items' = [seed_items EXCEPT ![w] = << >>]
    /\ idx' = [idx EXCEPT ![w] = 1]
    /\ LET user == get_user_by_email(email)
           strategy == Strategy(Lower(user.role), email)
       IN  /\ IF strategy \in {"admin_base", "editor"}
              THEN /\ pc' = [pc EXCEPT ![w] = "create"]
                   /\ outcome' = outcome
              ELSE /\ pc' = [pc EXCEPT ![w] = "done"]
                   /\ outcome' = [outcome EXCEPT ![w] = "returned"]
    /\ UNCHANGED <<items, next_id, faults, log>>
    /\ UNCHANGED session_vars
    /\ UNCHANGED mapper_vars
    /\ UNCHANGED client_vars
    /\ UNCHANGED cache_vars

\* _create_safe, lines 175-196: the except branch, e being what
\* client.create_item raised.  The log records what the backend answered.
CreateFailed(w, key, text, is_conflict_answer) ==
    /\ log' = [log EXCEPT ![w].creates = @ \cup {CallName(w)},
                          ![w].conflicts = IF is_conflict_answer THEN @ \cup {key} ELSE @,
                          ![w].create_errors = IF is_conflict_answer THEN @ ELSE @ \cup {key}]
    /\ IF IsConflict(text)
       THEN /\ pc' = [pc EXCEPT ![w] = "requery"]
            /\ UNCHANGED <<idx, outcome>>
       ELSE Advance(w)
    /\ UNCHANGED <<items, next_id, seed_items>>

\* _create_safe, lines 169-174: client.create_item(item_data) and its result.
MCreate(w) ==
    /\ pc[w] = "create"
    /\ LET key == CallKey(w)
           item_data == generate_item_data(CallName(w), ItemTypes[idx[w]])
       IN \E exhausted \in FailChoices :
            IF exhausted
            THEN \* APIException after the last attempt
                 \E text \in ErrorTexts :
                   /\ faults' = faults + 1
                   /\ CreateFailed(w, key, text, FALSE)
            ELSE IF NameTaken(items, item_data.name)
            THEN \* 409: the HTTPError is re-raised by create_item
                 /\ faults' = faults
                 /\ CreateFailed(w, key, ConflictText, TRUE)
            ELSE \* created: response {"status": ..., "data": item}
                 LET created == NewItem(next_id, item_data.name, user_email[w])
                     response == [status |-> "success", data |-> created]
                 IN  /\ items' = items \cup {created}
                     /\ next_id' = next_id + 1
                     /\ seed_items' = [seed_items EXCEPT ![w] =
                                           Put(@, key, Get(response, "data", response))]
                     /\ log' = [log EXCEPT ![w].creates = @ \cup {item_data.name}]
                     /\ faults' = faults
                     /\ Advance(w)
    /\ UNCHANGED user_email
    /\ UNCHANGED session_vars
    /\ UNCHANGED mapper_vars
    /\ UNCHANGED client_vars
    /\ UNCHANGED cache_vars

\* _create_safe, lines 178-193: fetch the existing item after a conflict.
MRequery(w) ==
    /\ pc[w] = "requery"
    /\ LET key == CallKey(w)
           item_data == generate_item_data(CallName(w), ItemTypes[idx[w]])
           status_param == StatusParam(item_data)
       IN \E exhausted \in FailChoices, list_key \in ListKeys :
            IF exhausted
            THEN \* fetch_error: warning only
                 /\ faults' = faults + 1
                 /\ log' = [log EXCEPT ![w].requery_failed = @ \cup {key},
                                       ![w].lists = @ + 1]
                 /\ UNCHANGED seed_items
            ELSE LET found == ListItems(items, user_email[w], item_data.name, status_param)
                     res == ListResponse(list_key, found)
                     existing == Existing(res, item_data.name)
                 IN  /\ log' = [log EXCEPT ![w].lists = @ + 1,
                                           ![w].requery_found =
                                               IF \E i \in found : i.name = item_data.name
                                               THEN @ \cup {key} ELSE @]
                     /\ faults' = faults
                     /\ IF existing # {}
                        THEN seed_items' = [seed_items EXCEPT ![w] =
                                                Put(@, key, CHOOSE i \in existing : TRUE)]
                        ELSE UNCHANGED seed_items
    /\ Advance(w)
    /\ UNCHANGED <<items, next_id, user_email>>
    /\ UNCHANGED session_vars
    /\ UNCHANGED mapper_vars
    /\ UNCHANGED client_vars
    /\ UNCHANGED cache_vars

\* Seed items left in the backend by earlier runs, under the names
\* SeedDataManager creates, for the two creating identities.
StoreWith(types) ==
    {NewItem(2 * i - 1, SeedName("admin_base", 1, ItemTypes[i]), get_user_email("ADMIN", 1)) :
        i \in {j \in 1..Len(ItemTypes) : ItemTypes[j] \in types}}
    \cup
    {NewItem(2 * i, SeedName("editor", 1, ItemTypes[i]), get_user_email("EDITOR", 1)) :
        i \in {j \in 1..Len(ItemTypes) : ItemTypes[j] \in types}}

\* nothing seeded yet, a seeding that stopped after the first type, all seeded
InitialTypes ==
    {{}, {ItemTypes[1]}, {ItemTypes[i] : i \in 1..Len(ItemTypes)}}

InitManager ==
    /\ \E types \in InitialTypes :
         /\ items = StoreWith(types)
         /\ next_id = 2 * Len(ItemTypes) + 1
    /\ faults = 0
    /\ pc = [w \in Callers |-> "idle"]
    /\ user_email = [w \in Callers |-> get_user_email("ADMIN", 1)]
    /\ idx = [w \in Callers |-> 1]
    /\ seed_items = [w \in Callers |-> << >>]
    /\ outcome = [w \in Callers |-> "none"]
    /\ log = [w \in Callers |-> EmptyLog]
    /\ SessionIdle
    /\ MapperIdle
    /\ ClientIdle
    /\ CacheIdle

NextManager ==
    \E w \in Callers :
        \/ \E email \in CallUsers : MCall(w, email)
        \/ MCreate(w)
        \/ MRequery(w)

SpecManager == InitManager /\ [][NextManager]_vars


(***************************************************************************)
(* Worker mapping (tests/conftest.py, lines 168-246; the same code is in   *)
(* utils/worker_mapper.py).                                                *)
(***************************************************************************)
\* settings.NUM_WORKERS (PYTEST_WORKERS), a bound of the model
NumWorkers == 2

StartsWith(s, prefix) ==
    Len(s) >= Len(prefix) /\ SubSeq(s, 1, Len(prefix)) = prefix

\* str.replace(sub, "")
RECURSIVE RemoveAll(_, _)
RemoveAll(s, sub) ==
    IF Len(s) < Len(sub) THEN s
    ELSE IF SubSeq(s, 1, Len(sub)) = sub
         THEN RemoveAll(SubSeq(s, Len(sub) + 1, Len(s)), sub)
         ELSE SubSeq(s, 1, 1) \o RemoveAll(SubSeq(s, 2, Len(s)), sub)

Digits == <<"0", "1", "2", "3", "4", "5", "6", "7", "8", "9">>
DigitValue(c) == (CHOOSE d \in 1..Len(Digits) : Digits[d] = c) - 1

\* int(s) for a string of decimal digits
RECURSIVE PyInt(_)
PyInt(s) ==
    IF Len(s) = 1 THEN DigitValue(s)
    ELSE 10 * PyInt(SubSeq(s, 1, Len(s) - 1)) + DigitValue(SubSeq(s, Len(s), Len(s)))

\* int(s) raises ValueError unless s is a decimal literal: digits with an
\* optional sign.
IsDigits(s) ==
    /\ Len(s) > 0
    /\ \A i \in 1..Len(s) : \E d \in 1..Len(Digits) : Digits[d] = SubSeq(s, i, i)
HasSign(s) == Len(s) > 0 /\ SubSeq(s, 1, 1) \in {"-", "+"}
IntRaises(s) ==
    ~IsDigits(IF HasSign(s) THEN SubSeq(s, 2, Len(s)) ELSE s)
\* int(s) of a decimal literal
PySignedInt(s) ==
    IF HasSign(s)
    THEN (IF SubSeq(s, 1, 1) = "-" THEN 0 - PyInt(SubSeq(s, 2, Len(s)))
          ELSE PyInt(SubSeq(s, 2, Len(s))))
    ELSE PyInt(s)

\* The early return of extract_worker_number (lines 186-187).
IsSentinel(wid) == wid = "master" \/ ~StartsWith(wid, "gw")

\* extract_worker_number raises ValueError (line 188)
extract_worker_number_raises(wid) ==
    ~IsSentinel(wid) /\ IntRaises(RemoveAll(wid, "gw"))

\* the value extract_worker_number returns when it does not raise
extract_worker_number(wid) ==
    IF IsSentinel(wid) THEN 0
    ELSE PySignedInt(RemoveAll(wid, "gw"))

\* The slot taken modulo the configured settings.NUM_WORKERS.
UserNumberConfigured(worker_num) == (worker_num % num_workers) + 1

\* The slot taken modulo one less than the pool size.
UserNumberShortPool(worker_num) == (worker_num % (PoolSize - 1)) + 1

\* user_num of get_user_for_worker: (worker_num % 8) + 1
UserNumber(worker_num) == (worker_num % PoolSize) + 1

get_user_for_worker(role, wid) ==
    LET worker_num == extract_worker_number(wid)
        user_num == UserNumber(worker_num)
    IN  get_user_email(role, user_num)

\* The role marker loop of determine_needed_users (lines 230-233):
\* a test without a role marker counts as ADMIN.
NoMarker == "no marker"
RolesNeeded(test_items) ==
    {IF test_items[i] = NoMarker THEN "ADMIN" ELSE test_items[i] :
        i \in 1..Len(test_items)}

\* Every role's users are needed, whatever the tests declare.
determine_needed_users_eager(roles) ==
    {get_user_for_worker(role, "gw" \o ToString(worker_num)) :
        role \in Roles, worker_num \in 0..(num_workers - 1)}

\* The loops over roles_needed and range(num_workers) of determine_needed_users.
determine_needed_users(roles) ==
    {get_user_for_worker(role, "gw" \o ToString(worker_num)) :
        role \in roles, worker_num \in 0..(num_workers - 1)}

(***************************************************************************)
(* Credentials (tests/conftest.py, lines 276-379).                         *)
(***************************************************************************)
\* Python's None
None == "None"
\* The token the backend issues to a user, and one it no longer accepts.
IssuedToken(email) == "token-" \o email
StaleToken(email) == "expired-" \o email
\* The backend accepts the tokens it issued.
Authorized(token) == StartsWith(token, "token-")

\* timedelta(days=7) of login_and_save_state (line 363)
TokenDays == 7
\* The day of the running session (datetime.now()).
Now == session_no

\* The auth state login_and_save_state builds (lines 357-363).
AuthState(email, token, day) ==
    [token |-> token, user_email |-> email, expires_at |-> day + TokenDays]

\* str.replace(old, new)
RECURSIVE Replace(_, _, _)
Replace(s, old, new) ==
    IF Len(s) < Len(old) THEN s
    ELSE IF SubSeq(s, 1, Len(old)) = old
         THEN new \o Replace(SubSeq(s, Len(old) + 1, Len(s)), old, new)
         ELSE SubSeq(s, 1, 1) \o Replace(SubSeq(s, 2, Len(s)), old, new)

\* settings.get_auth_file_path
AUTH_DIR == ".auth"
get_auth_file_path(email) ==
    LET safe_email == Replace(Replace(email, "@", "_"), ".", "_")
    IN  AUTH_DIR \o "/auth_" \o safe_email \o ".json"

\* json.dump and json.load of an auth state (lines 369-370, 298-299):
\* a string is written in quotes, None as null, a number as it is.
JsonString(v) == IF v = None THEN "null" ELSE "\"" \o v \o "\""
JsonValueAsWritten(t) == t
JsonValue(t) == IF t = "null" THEN None ELSE SubSeq(t, 2, Len(t) - 1)
json_dump(auth_state) ==
    [k \in DOMAIN auth_state |->
        IF k = "expires_at" THEN auth_state[k] ELSE JsonString(auth_state[k])]
json_load(file) ==
    [k \in DOMAIN file |-> IF k = "expires_at" THEN file[k] ELSE JsonValue(file[k])]

validate_token_accepts_all(token, request_ok) == TRUE

\* validate_token, lines 323-330; request_ok: GET /items did not fail
validate_token(token, request_ok) ==
    IF token = None \/ token = "" THEN FALSE
    ELSE request_ok /\ Authorized(token)

(***************************************************************************)
(* The session fixtures (tests/conftest.py).                               *)
(***************************************************************************)
\* @pytest.fixture(scope="session") of auth_states (line 249) and
\* seed_data (line 382)
AuthStatesScopeFunction == "function"

AuthStatesScope == "session"

SeedDataScope == "session"

\* pytest reuses the value, or the exception, of a session fixture
Cached(scope, phase) == scope = "session" /\ phase \in {"done", "failed"}

TestRunning == tests # << >> /\ tests[Len(tests)].stage # "finished"

SetLast(seq, field, value) == [seq EXCEPT ![Len(seq)][field] = value]

\* A test marked with `role` starts; the auth_states fixture is set up
\* unless its result is cached (lines 249-266).
TestStart(role) ==
    /\ Len(tests) < MaxTests
    /\ ~TestRunning
    /\ auth_phase # "running" /\ seed_phase # "running"
    /\ tests' = Append(tests, [role |-> role, stage |-> "setup", result |-> None,
                               token |-> None, seed_keys |-> {}])
    /\ IF Cached(AuthStatesScope, auth_phase)
       THEN UNCHANGED <<auth_phase, auth_todo, auth_order, auth_states_dict>>
       ELSE /\ auth_phase' = "running"
            /\ auth_todo' = determine_needed_users(roles_needed)
            /\ auth_order' = << >>
            /\ auth_states_dict' = << >>
    /\ UNCHANGED <<is_local, worker_id, roles_needed, num_workers, session_no, auth_file, login_count, login_failed,
                   seed_phase, seed_i, seed_call, seed_items_dict, seed_log>>
    /\ UNCHANGED auth_log
    /\ UNCHANGED caller_vars
    /\ UNCHANGED mapper_vars
    /\ UNCHANGED client_vars
    /\ UNCHANGED cache_vars
    /\ UNCHANGED backend_vars

\* auth_file.exists() and settings.IS_LOCAL (line 295)
CacheUsableInEveryMode(file_exists, local) == file_exists

CacheUsable(file_exists, local) == file_exists /\ local

\* What one call of get_valid_auth_state did: the file it found, whether the
\* validation request was made and what the backend answered, what the login
\* gave, and the auth state the call returned (NoFile when it raised).
AuthLogEntry(file, validation, login, returned) ==
    [session |-> session_no, file |-> file, validation |-> validation,
     login |-> login, returned |-> returned]

\* The two copies of login_and_save_state: tests/conftest.py reads the token
\* from localStorage and stores it as it is, None included (lines 359-361);
\* AuthManager takes it from APIClient.login, which raises when the response
\* holds no token (utils/api_client.py, lines 152-157).
Implementations == {"conftest", "AuthManager"}
LoginOutcome(impl, login) ==
    IF impl = "AuthManager" /\ login = "no token" THEN "raises" ELSE login

\* One iteration of the loop of auth_states (lines 268-270):
\* get_valid_auth_state (lines 292-310) and login_and_save_state (333-379).
AuthStep(u, impl) ==
    /\ auth_phase = "running"
    /\ u \in auth_todo
    /\ auth_todo' = auth_todo \ {u}
    /\ \E request_ok \in {TRUE} \cup (IF faults < MaxFaults THEN {FALSE} ELSE {}) :
         LET path == get_auth_file_path(u)
             file == auth_file[path]
             opened == CacheUsable(file # NoFile, is_local)
             cached == IF opened THEN json_load(file) ELSE NoFile
             reuse == opened /\ validate_token(Get(cached, "token", None), request_ok)
             validation ==
                 IF ~opened \/ JsonValue(file.token) = None THEN "not called"
                 ELSE IF ~request_ok THEN "no answer"
                 ELSE IF Authorized(JsonValue(file.token)) THEN "accepted" ELSE "rejected"
             spent == IF opened /\ ~request_ok THEN 1 ELSE 0
         IN IF reuse
            THEN \* the cached auth state is returned
                 /\ auth_states_dict' = Put(auth_states_dict, u, cached)
                 /\ auth_order' = Append(auth_order, u)
                 /\ auth_phase' = IF auth_todo' = {} THEN "done" ELSE "running"
                 /\ faults' = faults
                 /\ auth_log' = Put(auth_log, u, AuthLogEntry(file, validation, "none", cached))
                 /\ UNCHANGED <<auth_file, login_count, login_failed>>
            ELSE \* login_and_save_state
                 \E login \in {"token"} \cup
                              (IF faults + spent < MaxFaults
                               THEN {"raises", "no token"} ELSE {}) :
                   /\ login_count' = [login_count EXCEPT ![u] = @ + 1]
                   /\ faults' = faults + spent + (IF login = "token" THEN 0 ELSE 1)
                   /\ IF LoginOutcome(impl, login) = "raises"
                      THEN \* AuthenticationException leaves the fixture
                           /\ auth_phase' = "failed"
                           /\ login_failed' = login_failed \cup {u}
                           /\ auth_log' = Put(auth_log, u,
                                              AuthLogEntry(file, validation, login, NoFile))
                           /\ UNCHANGED <<auth_file, auth_states_dict, auth_order>>
                      ELSE LET token == IF login = "token" THEN IssuedToken(u) ELSE None
                               auth_state == AuthState(u, token, Now)
                           IN  /\ auth_file' = [auth_file EXCEPT ![path] = json_dump(auth_state)]
                               /\ auth_states_dict' = Put(auth_states_dict, u, auth_state)
                               /\ auth_order' = Append(auth_order, u)
                               /\ auth_phase' = IF auth_todo' = {} THEN "done" ELSE "running"
                               /\ auth_log' = Put(auth_log, u,
                                                  AuthLogEntry(file, validation, login,
                                                               auth_state))
                               /\ UNCHANGED login_failed
    /\ UNCHANGED <<is_local, worker_id, roles_needed, num_workers, session_no, seed_phase,
                   seed_i, seed_call, seed_items_dict, seed_log, tests>>
    /\ UNCHANGED <<items, next_id>>
    /\ UNCHANGED caller_vars
    /\ UNCHANGED mapper_vars
    /\ UNCHANGED client_vars
    /\ UNCHANGED cache_vars

\* The loop of the auth_states fixture of tests/conftest.py.
AuthOne(u) == AuthStep(u, "conftest")

\* The loop of AuthManager.setup_auth_states (utils/auth_manager.py, 55-57).
ManagerAuthOne(u) == AuthStep(u, "AuthManager")

\* The backend refuses item creation by viewers
\* (tests/test_02_create_items.py, TC-CREATE-006).
CanCreate(email) == get_user_by_email(email).role # "VIEWER"

\* The seed item name of a user for the item type of a mapping key.
ExpectedName(email, key) ==
    LET user == get_user_by_email(email)
        item_type == CHOOSE t \in {ItemTypes[i] : i \in 1..Len(ItemTypes)} : Lower(t) = key
    IN  generate_seed_item_name(Lower(user.role), user.number, item_type)

\* check_existing_seed_items (lines 414-453) on the response of GET /items;
\* a failed request gives the empty mapping (lines 451-453).
ExistingSeeds(response, email) ==
    LET all_items == Get(response, "items", {})
        found == {k \in SeedKeys : \E it \in all_items : it.name = ExpectedName(email, k)}
    IN  [k \in found |-> CHOOSE it \in all_items : it.name = ExpectedName(email, k)]

\* settings.IS_LOCAL as read by create_seed_items_for_user (line 468)
LookupEnabledAlways(local) == TRUE

LookupEnabled(local) == local

\* The response of POST /items as create_item returns it.
CreateResponse(item) == [status |-> "success", data |-> item]

EmptySeedLog == [existed |-> {}, found |-> {}, creates |-> {}, adopted |-> {},
                 looked_up |-> FALSE, raised |-> FALSE, tokens |-> {}]

\* The token of the first entry of auth_states, whoever the call is for.
CredentialOfFirst(states, u) == states[auth_order[1]].token

\* auth_state["token"] of the (user_email, auth_state) pair the loop of
\* seed_data is at (lines 401-402)
CredentialOf(states, u) == states[u].token

\* One iteration of the loop of seed_data finished (line 403).
SeedStore(u, mapping) ==
    /\ seed_items_dict' = Put(seed_items_dict, u, mapping)
    /\ seed_i' = seed_i + 1
    /\ seed_call' = NoCall

\* The seed_data fixture is set up for the running test unless its result
\* is cached (lines 382-399); it depends on auth_states.
SeedStart ==
    /\ TestRunning
    /\ auth_phase = "done"
    /\ seed_phase # "running"
    /\ ~Cached(SeedDataScope, seed_phase)
    /\ tests[Len(tests)].stage = "setup"
    /\ seed_phase' = "running"
    /\ seed_i' = 1
    /\ seed_call' = NoCall
    /\ seed_items_dict' = << >>
    /\ seed_log' = [u \in {auth_order[i] : i \in 1..Len(auth_order)} |-> EmptySeedLog]
    /\ tests' = SetLast(tests, "stage", "seeding")
    /\ UNCHANGED <<is_local, worker_id, roles_needed, num_workers, session_no, auth_file, auth_phase, auth_todo,
                   auth_order, auth_states_dict, login_count, login_failed>>
    /\ UNCHANGED auth_log
    /\ UNCHANGED caller_vars
    /\ UNCHANGED mapper_vars
    /\ UNCHANGED client_vars
    /\ UNCHANGED cache_vars
    /\ UNCHANGED backend_vars

\* create_seed_items_for_user up to its loop (lines 467-485).
SeedBegin ==
    /\ seed_phase = "running"
    /\ seed_call = NoCall
    /\ seed_i <= Len(auth_order)
    /\ LET u == auth_order[seed_i]
           token == CredentialOf(auth_states_dict, u)
           existed == {k \in SeedKeys : NameTaken(items, ExpectedName(u, k))}
           call(existing) == [user |-> u, token |-> token, existing_seeds |-> existing,
                              i |-> 1, seed_items |-> << >>]
       IN IF LookupEnabled(is_local)
          THEN \E request_ok \in (IF Authorized(token) THEN {TRUE} ELSE {})
                                 \cup (IF faults < MaxFaults \/ ~Authorized(token)
                                       THEN {FALSE} ELSE {}),
                  key \in ListKeys :
                 LET response == IF request_ok
                                 THEN ListResponse(key, ListItems(items, u, "", "all"))
                                 ELSE << >>
                     existing_seeds == ExistingSeeds(response, u)
                 IN  /\ faults' = faults + (IF request_ok \/ ~Authorized(token) THEN 0 ELSE 1)
                     /\ seed_log' = [seed_log EXCEPT ![u].existed = existed,
                                                     ![u].tokens = @ \cup {token},
                                                     ![u].found = DOMAIN existing_seeds,
                                                     ![u].looked_up = TRUE,
                                                     ![u].adopted =
                                                        IF Cardinality(DOMAIN existing_seeds) >= 3
                                                        THEN DOMAIN existing_seeds ELSE {}]
                     /\ IF Cardinality(DOMAIN existing_seeds) >= 3
                        THEN SeedStore(u, existing_seeds)
                        ELSE /\ seed_call' = call(existing_seeds)
                             /\ UNCHANGED <<seed_i, seed_items_dict>>
          ELSE /\ seed_call' = call(<< >>)
               /\ seed_log' = [seed_log EXCEPT ![u].existed = existed]
               /\ UNCHANGED <<faults, seed_i, seed_items_dict>>
    /\ UNCHANGED <<is_local, worker_id, roles_needed, num_workers, session_no, auth_file, auth_phase, auth_todo,
                   auth_order, auth_states_dict, login_count, login_failed, seed_phase, tests>>
    /\ UNCHANGED <<items, next_id>>
    /\ UNCHANGED auth_log
    /\ UNCHANGED caller_vars
    /\ UNCHANGED mapper_vars
    /\ UNCHANGED client_vars
    /\ UNCHANGED cache_vars

\* One iteration of the loop of create_seed_items_for_user (lines 488-502)
\* and, after the last one, its return (line 504).
SeedCreate ==
    /\ seed_phase = "running"
    /\ seed_call # NoCall
    /\ LET u == seed_call.user
           item_type == ItemTypes[seed_call.i]
           key == Lower(item_type)
           user == get_user_by_email(u)
           name == generate_seed_item_name(Lower(user.role), user.number, item_type)
           item_data == generate_item_data(name, item_type)
           last == seed_call.i = Len(ItemTypes)
           next(mapping) ==
               IF last THEN SeedStore(u, mapping)
               ELSE /\ seed_call' = [seed_call EXCEPT !.i = @ + 1, !.seed_items = mapping]
                    /\ UNCHANGED <<seed_i, seed_items_dict>>
       IN IF LookupEnabled(is_local) /\ key \in DOMAIN seed_call.existing_seeds
          THEN \* already exists: no create
               /\ next(Put(seed_call.seed_items, key, seed_call.existing_seeds[key]))
               /\ seed_log' = [seed_log EXCEPT ![u].adopted = @ \cup {key}]
               /\ UNCHANGED <<items, next_id, faults, seed_phase>>
          ELSE \E exhausted \in FailChoices :
                 /\ seed_log' = [seed_log EXCEPT ![u].creates = @ \cup {key},
                                                 ![u].tokens = @ \cup {seed_call.token},
                                                 ![u].raised =
                                                    \/ exhausted
                                                    \/ ~Authorized(seed_call.token)
                                                    \/ ~CanCreate(u)
                                                    \/ NameTaken(items, item_data.name)]
                 /\ IF \/ exhausted
                       \/ ~Authorized(seed_call.token)
                       \/ ~CanCreate(u)
                       \/ NameTaken(items, item_data.name)
                    THEN \* any exception of create_item, a conflict included
                         /\ seed_phase' = "failed"
                         /\ seed_call' = NoCall
                         /\ faults' = faults + (IF exhausted THEN 1 ELSE 0)
                         /\ UNCHANGED <<items, next_id, seed_i, seed_items_dict>>
                    ELSE LET item == NewItem(next_id, item_data.name, u)
                         IN  /\ items' = items \cup {item}
                             /\ next_id' = next_id + 1
                             /\ next(Put(seed_call.seed_items, key, CreateResponse(item)))
                             /\ UNCHANGED <<faults, seed_phase>>
    /\ UNCHANGED <<is_local, worker_id, roles_needed, num_workers, session_no, auth_file, auth_phase, auth_todo,
                   auth_order, auth_states_dict, login_count, login_failed, tests>>
    /\ UNCHANGED auth_log
    /\ UNCHANGED caller_vars
    /\ UNCHANGED mapper_vars
    /\ UNCHANGED client_vars
    /\ UNCHANGED cache_vars

\* The loop of seed_data is over (lines 405-411).
SeedFinish ==
    /\ seed_phase = "running"
    /\ seed_call = NoCall
    /\ seed_i > Len(auth_order)
    /\ seed_phase' = "done"
    /\ UNCHANGED <<is_local, worker_id, roles_needed, num_workers, session_no, auth_file, auth_phase, auth_todo,
                   auth_order, auth_states_dict, login_count, login_failed,
                   seed_i, seed_call, seed_items_dict, seed_log, tests>>
    /\ UNCHANGED auth_log
    /\ UNCHANGED caller_vars
    /\ UNCHANGED mapper_vars
    /\ UNCHANGED client_vars
    /\ UNCHANGED cache_vars
    /\ UNCHANGED backend_vars

\* test_context (lines 604-627): the running test gets its context, or
\* errors because a fixture it requests raised.
TestFinish ==
    /\ TestRunning
    /\ \/ auth_phase = "failed"
       \/ auth_phase = "done" /\ seed_phase \in {"done", "failed"}
    /\ LET role == tests[Len(tests)].role
           u == get_user_for_worker(role, worker_id)
           finished(result, token, keys) ==
               [tests EXCEPT ![Len(tests)] =
                   [role |-> role, stage |-> "finished", result |-> result,
                    token |-> token, seed_keys |-> keys]]
       IN IF auth_phase = "failed"
          THEN \* the auth_states fixture raised
               tests' = finished("AuthenticationException", None, {})
          ELSE IF seed_phase = "failed"
          THEN \* the seed_data fixture raised
               tests' = finished("SeedDataException", None, {})
          ELSE LET auth_state == Get(auth_states_dict, u, << >>)
                   user_seed_data == Get(seed_items_dict, u, << >>)
               IN  tests' = finished("ran", Get(auth_state, "token", ""),
                                     DOMAIN user_seed_data)
    /\ UNCHANGED <<is_local, worker_id, roles_needed, num_workers, session_no, auth_file, auth_phase, auth_todo,
                   auth_order, auth_states_dict, login_count, login_failed, seed_phase,
                   seed_i, seed_call, seed_items_dict, seed_log>>
    /\ UNCHANGED auth_log
    /\ UNCHANGED caller_vars
    /\ UNCHANGED mapper_vars
    /\ UNCHANGED client_vars
    /\ UNCHANGED cache_vars
    /\ UNCHANGED backend_vars

\* Role sets of the collected tests, worker processes and credential caches
\* the sessions start with.
SessionRoles == {{"ADMIN"}, {"EDITOR"}, {"VIEWER"}}
\* (the last worker is one more than PYTEST_WORKERS announces: pytest -n
\* and PYTEST_WORKERS are set independently)
SessionWorkers == {"master", "gw1", "gw" \o ToString(NumWorkers)}
\* no file; a file written the day before; a file whose token the backend
\* rejects; a file whose expires_at has passed while the backend still
\* accepts its token
CacheKinds == {"none", "valid", "stale", "outdated"}

CachedFile(kind, u) ==
    CASE kind = "valid" -> json_dump(AuthState(u, IssuedToken(u), 0))
      [] kind = "stale" -> json_dump(AuthState(u, StaleToken(u), 0))
      [] kind = "outdated" ->
            json_dump([AuthState(u, IssuedToken(u), 0) EXCEPT !.expires_at = 0])
      [] OTHER -> NoFile

\* Seed records left in the backend by earlier sessions.
SessionStore(users, types) ==
    {NewItem(Len(ItemTypes) * (get_user_by_email(u).number - 1) + i,
             ExpectedName(u, Lower(ItemTypes[i])), u) :
        u \in {v \in users : CanCreate(v)},
        i \in {j \in 1..Len(ItemTypes) : ItemTypes[j] \in types}}

InitSession ==
    /\ is_local \in BOOLEAN
    /\ worker_id \in SessionWorkers
    /\ roles_needed \in SessionRoles
    /\ num_workers = NumWorkers
    /\ session_no = 1
    /\ \E kind \in CacheKinds :
         auth_file = [path \in {get_auth_file_path(u) :
                                   u \in determine_needed_users(roles_needed)} |->
                         CachedFile(kind,
                                    CHOOSE u \in determine_needed_users(roles_needed) :
                                        get_auth_file_path(u) = path)]
    /\ \E types \in InitialTypes :
         items = SessionStore(determine_needed_users(roles_needed), types)
    /\ next_id = Len(ItemTypes) * NumWorkers + 1
    /\ faults = 0
    /\ auth_phase = "unset"
    /\ auth_todo = {}
    /\ auth_order = << >>
    /\ auth_states_dict = << >>
    /\ login_count = [u \in determine_needed_users(roles_needed) |-> 0]
    /\ login_failed = {}
    /\ seed_phase = "unset"
    /\ seed_i = 1
    /\ seed_call = NoCall
    /\ seed_items_dict = << >>
    /\ seed_log = << >>
    /\ tests = << >>
    /\ auth_log = << >>
    /\ MapperIdle
    /\ ClientIdle
    /\ CacheIdle
    /\ pc = [w \in Callers |-> "idle"]
    /\ user_email = [w \in Callers |-> get_user_email("ADMIN", 1)]
    /\ idx = [w \in Callers |-> 1]
    /\ seed_items = [w \in Callers |-> << >>]
    /\ outcome = [w \in Callers |-> "none"]
    /\ log = [w \in Callers |-> EmptyLog]

\* The pytest process ends and a later one starts on the same machine: the
\* auth files and the backend stay, the fixtures are set up again.
NewSession ==
    /\ session_no < MaxSessions
    /\ tests # << >>
    /\ ~TestRunning
    /\ session_no' = session_no + 1
    /\ is_local' \in BOOLEAN
    /\ auth_phase' = "unset"
    /\ auth_todo' = {}
    /\ auth_order' = << >>
    /\ auth_states_dict' = << >>
    /\ login_count' = [u \in DOMAIN login_count |-> 0]
    /\ login_failed' = {}
    /\ seed_phase' = "unset"
    /\ seed_i' = 1
    /\ seed_call' = NoCall
    /\ seed_items_dict' = << >>
    /\ seed_log' = << >>
    /\ tests' = << >>
    /\ auth_log' = << >>
    /\ UNCHANGED <<worker_id, roles_needed, num_workers, auth_file>>
    /\ UNCHANGED caller_vars
    /\ UNCHANGED mapper_vars
    /\ UNCHANGED client_vars
    /\ UNCHANGED cache_vars
    /\ UNCHANGED backend_vars

NextSession ==
    \/ \E role \in roles_needed : TestStart(role)
    \/ \E u \in auth_todo : AuthOne(u)
    \/ SeedStart
    \/ SeedBegin
    \/ SeedCreate
    \/ SeedFinish
    \/ TestFinish

SpecSession == InitSession /\ [][NextSession]_vars

(***************************************************************************)
(* Sessions whose auth states are set up by AuthManager.setup_auth_states  *)
(* and whose tests request the authenticated page only: no seed data is    *)
(* set up.                                                                 *)
(***************************************************************************)
\* authenticated_page (lines 561-582)
PageFinish ==
    /\ TestRunning
    /\ auth_phase \in {"done", "failed"}
    /\ LET role == tests[Len(tests)].role
           u == get_user_for_worker(role, worker_id)
           finished(result, token) ==
               [tests EXCEPT ![Len(tests)] =
                   [role |-> role, stage |-> "finished", result |-> result,
                    token |-> token, seed_keys |-> {}]]
       IN IF auth_phase = "failed"
          THEN \* the auth_states fixture raised
               tests' = finished("AuthenticationException", None)
          ELSE IF u \notin DOMAIN auth_states_dict
          THEN \* "Auth state not found"
               tests' = finished("AuthenticationException", None)
          ELSE tests' = finished("ran", auth_states_dict[u].token)
    /\ UNCHANGED <<is_local, worker_id, roles_needed, num_workers, session_no, auth_file,
                   auth_phase, auth_todo, auth_order, auth_states_dict, login_count,
                   login_failed, seed_phase, seed_i, seed_call, seed_items_dict, seed_log>>
    /\ UNCHANGED auth_log
    /\ UNCHANGED caller_vars
    /\ UNCHANGED mapper_vars
    /\ UNCHANGED client_vars
    /\ UNCHANGED cache_vars
    /\ UNCHANGED backend_vars

InitAuth ==
    /\ InitSession
    /\ items = {}

NextAuth ==
    \/ NewSession
    \/ \E role \in roles_needed : TestStart(role)
    \/ \E u \in auth_todo : ManagerAuthOne(u)
    \/ PageFinish

SpecAuth == InitAuth /\ [][NextAuth]_vars

(***************************************************************************)
(* Calls of the worker mapping functions (tests/conftest.py, lines         *)
(* 168-246, and utils/worker_mapper.py) made by worker processes that are  *)
(* configured with different PYTEST_WORKERS.                               *)
(***************************************************************************)
\* The values of settings.NUM_WORKERS (= USERS_PER_ROLE) the processes run with.
ConfiguredWorkers == {2, 4, PoolSize}

\* Runtime worker ids: the sentinel, the xdist tags gw<k>, and strings that
\* are no such tag.
WorkerIds ==
    {"master", "worker1", "gw", "gwx", "gw-1"}
    \cup {"gw" \o ToString(k) : k \in 0..MaxWorkerNum}

\* The role markers of the selected tests.
TestSelections ==
    {<<"ADMIN">>, <<"VIEWER">>, <<NoMarker>>, <<"VIEWER", "VIEWER">>,
     <<"EDITOR", NoMarker>>, <<"VIEWER", "EDITOR">>}

\* The Python exception a call ended with.
ValueError == "ValueError"

MapperCall(fn, role, wid, test_items, raised, result) ==
    [fn |-> fn, num_workers |-> num_workers, role |-> role, worker_id |-> wid,
     test_items |-> test_items, raised |-> raised, result |-> result]

SameInputs(c, d) ==
    /\ c.fn = d.fn
    /\ c.role = d.role
    /\ c.worker_id = d.worker_id
    /\ c.test_items = d.test_items

\* The last call is kept, and the one before it when it had the same inputs.
Remember(call) ==
    IF mapper_calls # << >> /\ SameInputs(mapper_calls[Len(mapper_calls)], call)
    THEN <<mapper_calls[Len(mapper_calls)], call>>
    ELSE <<call>>

MapperFrame ==
    /\ UNCHANGED <<is_local, worker_id, roles_needed, auth_file, auth_phase, auth_todo,
                   auth_order, auth_states_dict, login_count, login_failed, seed_phase,
                   seed_i, seed_call, seed_items_dict, seed_log, tests, auth_log, session_no>>
    /\ UNCHANGED caller_vars
    /\ UNCHANGED backend_vars
    /\ UNCHANGED client_vars
    /\ UNCHANGED cache_vars

\* A worker process with another PYTEST_WORKERS makes the next calls.
Reconfigure(n) ==
    /\ n # num_workers
    /\ num_workers' = n
    /\ UNCHANGED mapper_vars
    /\ MapperFrame

\* extract_worker_number(worker_id)
ExtractCall(wid) ==
    /\ mapper_calls' =
          Remember(IF extract_worker_number_raises(wid)
                   THEN MapperCall("extract_worker_number", None, wid, << >>, ValueError, 0)
                   ELSE MapperCall("extract_worker_number", None, wid, << >>, None,
                                   extract_worker_number(wid)))
    /\ UNCHANGED num_workers
    /\ MapperFrame

\* get_user_for_worker(role, worker_id)
ResolveCall(role, wid) ==
    /\ mapper_calls' =
          Remember(IF extract_worker_number_raises(wid)
                   THEN MapperCall("get_user_for_worker", role, wid, << >>, ValueError, None)
                   ELSE MapperCall("get_user_for_worker", role, wid, << >>, None,
                                   get_user_for_worker(role, wid)))
    /\ UNCHANGED num_workers
    /\ MapperFrame

\* determine_needed_users(test_items)
NeededCall(test_items) ==
    /\ mapper_calls' =
          Remember(MapperCall("determine_needed_users", None, None, test_items, None,
                              determine_needed_users(RolesNeeded(test_items))))
    /\ UNCHANGED num_workers
    /\ MapperFrame

InitMapper ==
    /\ items = {}
    /\ next_id = 1
    /\ faults = 0
    /\ pc = [w \in Callers |-> "idle"]
    /\ user_email = [w \in Callers |-> get_user_email("ADMIN", 1)]
    /\ idx = [w \in Callers |-> 1]
    /\ seed_items = [w \in Callers |-> << >>]
    /\ outcome = [w \in Callers |-> "none"]
    /\ log = [w \in Callers |-> EmptyLog]
    /\ SessionIdle
    /\ MapperIdle
    /\ ClientIdle
    /\ CacheIdle

NextMapper ==
    \/ \E n \in ConfiguredWorkers : Reconfigure(n)
    \/ \E wid \in WorkerIds : ExtractCall(wid)
    \/ \E role \in Roles, wid \in WorkerIds : ResolveCall(role, wid)
    \/ \E test_items \in TestSelections : NeededCall(test_items)

SpecMapper == InitMapper /\ [][NextMapper]_vars

(***************************************************************************)
(* One call of an APIClient method, attempt by attempt                     *)
(* (utils/api_client.py, lines 59-254).                                    *)
(***************************************************************************)
\* The status of a successful answer; the error statuses raise_for_status
\* turns into HTTPError; status_code=0 of a request without a response
\* (timeout, connection error).
HTTP_OK == 200
ErrorStatuses == {400, 500}
NO_RESPONSE == 0

ClientMethods == {"get_all_items", "create_item", "login"}
\* The item names create_item is called with.
ClientNames ==
    {generate_seed_item_name("admin", 1, ItemTypes[i]) : i \in 1..2}

\* The statuses the backend can answer the next attempt of a call with.
Answers(call) ==
    ErrorStatuses \cup {NO_RESPONSE} \cup
    (IF call.fn = "create_item" /\ NameTaken(items, call.name)
     THEN {HTTP_CONFLICT} ELSE {HTTP_OK})

\* The "token" of the response of POST /auth/login.
LoginTokens(call, status) ==
    IF call.fn = "login" /\ status = HTTP_OK
    THEN {IssuedToken(call.email), None, ""}
    ELSE {None}

\* Every failed attempt is followed by another one.
RetryAlways(attempt, max_retries) == TRUE

\* `if attempt < max_retries` of _request (line 109) and `if attempt < 3`
\* of create_item (lines 234, 246)
RetryLeft(attempt, max_retries) == attempt < max_retries

\* A 409 is handled like every other error status.
ConflictNotSingledOut(status) == FALSE

\* `if status_code == 409` of create_item (line 227)
IsConflictStatus(status) == status = HTTP_CONFLICT

\* `if not self.token` of login (line 153)
TokenMissing(token) == token = None \/ token = ""

\* One iteration of the loop of _request (lines 83-120) whose request got
\* `status`: the call returns, goes on to the next iteration, or raises.
RequestAttempt(status, attempt, max_retries) ==
    IF status = HTTP_OK THEN "returned"
    ELSE IF RetryLeft(attempt, max_retries) THEN "retry"
    ELSE "APIException"

\* One iteration of the loop of create_item (lines 210-254); a 409 is
\* re-raised as the HTTPError it is (line 229).
CreateItemAttempt(status, attempt) ==
    IF status = HTTP_OK THEN "returned"
    ELSE IF status # NO_RESPONSE /\ IsConflictStatus(status) THEN "HTTPError"
    ELSE IF RetryLeft(attempt, MaxRetries) THEN "retry"
    ELSE "APIException"

\* for attempt in range(1, max_retries + 1): after the last iteration the
\* loop is left and the function returns None.
LoopEnd(step, attempt, max_retries) ==
    IF step = "retry" /\ attempt >= max_retries THEN "returned None" ELSE step

\* login (lines 142-168) around its call of _request
LoginResult(request_result, token) ==
    CASE request_result = "APIException" -> "AuthenticationException"
      [] request_result = "returned None" -> "AttributeError"
      [] request_result = "returned" /\ TokenMissing(token) -> "AuthenticationException"
      [] OTHER -> request_result

ClientOver ==
    IF client_call = NoCall THEN TRUE ELSE client_call.outcome # "pending"
ClientPending == ~ClientOver

ClientFrame ==
    /\ UNCHANGED session_vars
    /\ UNCHANGED caller_vars
    /\ UNCHANGED mapper_vars
    /\ UNCHANGED cache_vars
    /\ UNCHANGED faults

\* A method of APIClient is called.
ClientStart(fn, name, email) ==
    /\ ClientOver
    /\ client_call' = [running |-> TRUE, fn |-> fn, name |-> name, email |-> email,
                       attempt |-> 1, sleeps |-> 0, outcome |-> "pending",
                       token |-> None]
    /\ client_log' = << >>
    /\ UNCHANGED <<items, next_id>>
    /\ ClientFrame

\* One request of the call and what the method does with its answer.
ClientAttempt ==
    /\ ClientPending
    /\ \E status \in Answers(client_call) : \E token \in LoginTokens(client_call, status) :
         LET fn == client_call.fn
             attempt == client_call.attempt
             step == IF fn = "create_item"
                     THEN CreateItemAttempt(status, attempt)
                     ELSE RequestAttempt(status, attempt, MaxRetries)
             ended == LoopEnd(step, attempt, MaxRetries)
             result == IF fn = "login" THEN LoginResult(ended, token) ELSE ended
         IN  /\ client_log' = Append(client_log, status)
             /\ client_call' =
                   IF result = "retry"
                   THEN \* time.sleep(1); continue
                        [client_call EXCEPT !.attempt = @ + 1, !.sleeps = @ + 1]
                   ELSE [client_call EXCEPT
                            !.outcome = result,
                            !.token = IF fn = "login" /\ result = "returned"
                                      THEN token ELSE None]
             /\ IF fn = "create_item" /\ status = HTTP_OK
                THEN /\ items' = items \cup {NewItem(next_id, client_call.name,
                                                     client_call.email)}
                     /\ next_id' = next_id + 1
                ELSE UNCHANGED <<items, next_id>>
    /\ ClientFrame

InitClient ==
    /\ items = {}
    /\ next_id = 1
    /\ faults = 0
    /\ pc = [w \in Callers |-> "idle"]
    /\ user_email = [w \in Callers |-> get_user_email("ADMIN", 1)]
    /\ idx = [w \in Callers |-> 1]
    /\ seed_items = [w \in Callers |-> << >>]
    /\ outcome = [w \in Callers |-> "none"]
    /\ log = [w \in Callers |-> EmptyLog]
    /\ SessionIdle
    /\ MapperIdle
    /\ ClientIdle
    /\ CacheIdle

NextClient ==
    \/ \E fn \in ClientMethods, name \in ClientNames :
          ClientStart(fn, IF fn = "create_item" THEN name ELSE "",
                      get_user_email("ADMIN", 1))
    \/ ClientAttempt

SpecClient == InitClient /\ [][NextClient]_vars

\* A call that was started goes on: nothing in the method waits for
\* anything but the answer or the timeout of its request.
SpecClientLive == SpecClient /\ WF_vars(ClientAttempt)

(***************************************************************************)
(* Worker processes running get_valid_auth_state for the same user, with   *)
(* the auth file of the user as the only thing they share                  *)
(* (utils/auth_manager.py, lines 82-100 and 172-183; the same statements   *)
(* are in tests/conftest.py, lines 292-310 and 365-374).                   *)
(***************************************************************************)
CacheProcs == 1..NumProcs
CacheUser == get_user_email("ADMIN", 1)

\* open(auth_file, 'w') leaves the file empty until json.dump has written
\* it and the with block has closed it.
Truncated == [exists |-> TRUE, truncated |-> TRUE]

\* json.load of an empty or half-written file raises JSONDecodeError.
json_load_raises(file) == file = Truncated

\* The token the login of process p is issued.
LoginToken(p) == IssuedToken(CacheUser) \o "/" \o ToString(p)

CacheProcStart == [pc |-> "start", loaded |-> NoFile, result |-> NoFile, how |-> "none"]

CacheFrame ==
    /\ UNCHANGED session_vars
    /\ UNCHANGED caller_vars
    /\ UNCHANGED mapper_vars
    /\ UNCHANGED client_vars
    /\ UNCHANGED backend_vars

\* if auth_file.exists() and settings.IS_LOCAL (line 85)
CacheCheck(p) ==
    /\ cache_proc[p].pc = "start"
    /\ cache_proc' = [cache_proc EXCEPT ![p].pc =
                         IF CacheUsable(cache_file # NoFile, is_local)
                         THEN "open" ELSE "login"]
    /\ UNCHANGED cache_file
    /\ CacheFrame

\* with open(auth_file, 'r') as f: auth_state = json.load(f) (lines 88-89)
CacheLoad(p) ==
    /\ cache_proc[p].pc = "open"
    /\ cache_proc' = [cache_proc EXCEPT ![p] =
                         IF json_load_raises(cache_file)
                         THEN [@ EXCEPT !.pc = "raised", !.how = "JSONDecodeError"]
                         ELSE [@ EXCEPT !.pc = "validate",
                                        !.loaded = json_load(cache_file)]]
    /\ UNCHANGED cache_file
    /\ CacheFrame

\* if AuthManager.validate_token(auth_state.get("token")) (lines 92-96)
CacheValidate(p) ==
    /\ cache_proc[p].pc = "validate"
    /\ \E request_ok \in BOOLEAN :
         LET auth_state == cache_proc[p].loaded
         IN  cache_proc' = [cache_proc EXCEPT ![p] =
                               IF validate_token(Get(auth_state, "token", None), request_ok)
                               THEN [@ EXCEPT !.pc = "returned", !.result = auth_state,
                                              !.how = "validated"]
                               ELSE [@ EXCEPT !.pc = "login"]]
    /\ UNCHANGED cache_file
    /\ CacheFrame

\* login_and_save_state up to the auth state it builds (lines 142-170)
CacheLogin(p) ==
    /\ cache_proc[p].pc = "login"
    /\ cache_proc' = [cache_proc EXCEPT ![p].pc = "write",
                                        ![p].result = AuthState(CacheUser, LoginToken(p), Now)]
    /\ UNCHANGED cache_file
    /\ CacheFrame

\* with open(auth_file, 'w') as f: (line 176)
CacheOpenForWrite(p) ==
    /\ cache_proc[p].pc = "write"
    /\ cache_file' = Truncated
    /\ cache_proc' = [cache_proc EXCEPT ![p].pc = "dump"]
    /\ CacheFrame

\* json.dump(auth_state, f, indent=2), the end of the with block and the
\* return (lines 177-183)
CacheDump(p) ==
    /\ cache_proc[p].pc = "dump"
    /\ cache_file' = json_dump(cache_proc[p].result)
    /\ cache_proc' = [cache_proc EXCEPT ![p].pc = "returned", ![p].how = "logged in"]
    /\ CacheFrame

InitCache ==
    /\ items = {}
    /\ next_id = 1
    /\ faults = 0
    /\ pc = [w \in Callers |-> "idle"]
    /\ user_email = [w \in Callers |-> get_user_email("ADMIN", 1)]
    /\ idx = [w \in Callers |-> 1]
    /\ seed_items = [w \in Callers |-> << >>]
    /\ outcome = [w \in Callers |-> "none"]
    /\ log = [w \in Callers |-> EmptyLog]
    /\ SessionIdle
    /\ MapperIdle
    /\ ClientIdle
    /\ cache_file \in {CachedFile(kind, CacheUser) : kind \in {"none", "valid", "stale"}}
    /\ cache_proc = [p \in CacheProcs |-> CacheProcStart]

NextCache ==
    \E p \in CacheProcs :
        \/ CacheCheck(p)
        \/ CacheLoad(p)
        \/ CacheValidate(p)
        \/ CacheLogin(p)
        \/ CacheOpenForWrite(p)
        \/ CacheDump(p)

SpecCache == InitCache /\ [][NextCache]_vars

(***************************************************************************)
(* Properties.                                                             *)
(***************************************************************************)
Done(w) == pc[w] = "done"
Started(w) == pc[w] # "idle"
RoleOf(w) == get_user_by_email(user_email[w]).role
NumberOf(w) == get_user_by_email(user_email[w]).number
\* No backend call of caller w ended in a failure other than 409.
FaultFree(w) == log[w].create_errors = {} /\ log[w].requery_failed = {}
TypeIndexes == 1..Len(ItemTypes)
EditorName(w, i) == SeedName("editor", NumberOf(w), ItemTypes[i])

\* C1: when callers that alias onto the same EDITOR identity have run
\* create_seed_items_for_user, in any interleaving, against a backend that
\* answered their calls with nothing but success and 409, the backend holds
\* exactly one record per seed type of that identity and every caller's
\* mapping binds physical, digital and service to that record's id.
C1_AliasedEditorsConverge ==
    \A w1, w2 \in Callers :
        ( /\ Done(w1) /\ Done(w2)
          /\ RoleOf(w1) = "EDITOR"
          /\ user_email[w1] = user_email[w2]
          /\ FaultFree(w1) /\ FaultFree(w2) )
        => \A i \in TypeIndexes :
             LET key == Lower(ItemTypes[i])
                 stored == {it \in items : it.name = EditorName(w1, i)}
             IN  /\ Cardinality(stored) = 1
                 /\ key \in DOMAIN seed_items[w1]
                 /\ key \in DOMAIN seed_items[w2]
                 /\ seed_items[w1][key] \in stored
                 /\ seed_items[w1][key]._id = seed_items[w2][key]._id

\* Two callers of one editor raced: each lost the create of one type to the
\* other, and both are done.
C1_Witness ==
    \E w1, w2 \in Callers :
        /\ w1 # w2 /\ Done(w1) /\ Done(w2)
        /\ RoleOf(w1) = "EDITOR" /\ user_email[w1] = user_email[w2]
        /\ FaultFree(w1) /\ FaultFree(w2)
        /\ log[w1].conflicts # {} /\ log[w2].conflicts # {}
        /\ log[w1].conflicts \cap log[w2].conflicts = {}

C4_ThreeKeysForAdminAndEditor ==
    \A w \in Callers :
        (Done(w) /\ outcome[w] = "returned" /\ FaultFree(w)
            /\ RoleOf(w) \in {"ADMIN", "EDITOR"})
        => DOMAIN seed_items[w] = SeedKeys

C10_OtherAdminsLookUp ==
    \A w \in Callers :
        /\ (Done(w) /\ RoleOf(w) = "ADMIN" /\ NumberOf(w) # 1)
             => (log[w].creates = {} /\ log[w].lists > 0)
        /\ (Started(w) /\ \E n \in log[w].creates : Contains(n, "_admin"))
             => (RoleOf(w) = "ADMIN" /\ NumberOf(w) = 1)

(***************************************************************************)
(* Properties of the session fixtures (SpecSession).                       *)
(***************************************************************************)
TestUser(i) == get_user_for_worker(tests[i].role, worker_id)
Finished(i) == tests[i].stage = "finished"
Authenticated == {auth_order[i] : i \in 1..Len(auth_order)}
SeedCallReturned(u) == u \in DOMAIN seed_items_dict

\* C3: within one session at most one login is performed for every user,
\* however many tests of the session request the credentials.
C3_AtMostOneLoginPerIdentity ==
    \A u \in DOMAIN login_count : login_count[u] <= 1

\* Two tests of the session are over and a user was logged in.
C3_Witness ==
    /\ Len(tests) >= 2
    /\ Finished(2)
    /\ tests[1].result = "ran" /\ tests[2].result = "ran"
    /\ \E u \in DOMAIN login_count : login_count[u] = 1

C7_SeedFailureIsIsolated ==
    seed_phase \in {"done", "failed"} =>
        \A u \in Authenticated :
            ~seed_log[u].raised => seed_phase = "done" /\ SeedCallReturned(u)

\* C8: when the login of one needed user fails, the tests of the other
\* users do not fail with the authentication error.
C8_LoginFailureIsIsolated ==
    \A i \in 1..Len(tests) :
        (Finished(i) /\ TestUser(i) \notin login_failed) =>
            tests[i].result # "AuthenticationException"

(***************************************************************************)
(* Properties of the credential cache (SpecAuth).                          *)
(***************************************************************************)
Handled == DOMAIN auth_log
Persisted(u) == auth_file[get_auth_file_path(u)]
LoggedIn(u) == auth_log[u].login # "none"
Returned(u) == auth_log[u].returned # NoFile

\* C11: get_valid_auth_state follows the credential state machine: without
\* a cached record it logs in and the returned auth state is the persisted
\* one; a cached record whose token the validation call accepts is returned
\* without a login; after a cached record whose token fails the validation
\* call it logs in and the persisted record is the new auth state.
C11_CredentialStateMachine ==
    \A u \in Handled :
        LET e == auth_log[u]
        IN  /\ e.file = NoFile =>
                 /\ LoggedIn(u)
                 /\ Returned(u) => Persisted(u) = json_dump(e.returned)
            /\ e.validation = "accepted" =>
                 /\ ~LoggedIn(u)
                 /\ e.returned = json_load(e.file)
                 /\ Persisted(u) = e.file
            /\ e.validation \in {"rejected", "no answer"} =>
                 /\ LoggedIn(u)
                 /\ Returned(u) => Persisted(u) = json_dump(e.returned)

\* A cached record was rejected, the user was logged in again and the file
\* holds the new auth state.
C11_Witness ==
    \E u \in Handled :
        /\ auth_log[u].validation = "rejected"
        /\ auth_log[u].login = "token"
        /\ Persisted(u) # auth_log[u].file
        /\ Persisted(u) = json_dump(auth_log[u].returned)

\* C12: a cached record whose expires_at has passed is never returned for
\* reuse.
C12_ExpiredCredentialNotReused ==
    \A u \in Handled :
        (~LoggedIn(u) /\ Returned(u)) => ~(auth_log[u].returned.expires_at < Now)

\* C13: in a CI run no cached record is used: no validation call is made
\* for a cached token and every handled user is logged in afresh.
C13_NoReuseInCI ==
    ~is_local =>
        \A u \in Handled :
            /\ auth_log[u].validation = "not called"
            /\ LoggedIn(u)
            /\ Returned(u) =>
                 /\ Persisted(u) = json_dump(auth_log[u].returned)
                 /\ auth_log[u].returned.expires_at = Now + TokenDays

\* A CI run found a file whose token the backend accepts and logged in.
C13_Witness ==
    /\ ~is_local
    /\ \E u \in Handled :
         /\ auth_log[u].file # NoFile
         /\ Authorized(JsonValue(auth_log[u].file.token))
         /\ auth_log[u].login = "token"
         /\ Returned(u)

\* The file get_valid_auth_state found was written by login_and_save_state
\* in an earlier session.
WrittenEarlier(u) ==
    /\ auth_log[u].file # NoFile
    /\ \E day \in 1..(auth_log[u].session - 1) :
         auth_log[u].file.expires_at = day + TokenDays

\* C14: an auth state written by login_and_save_state and loaded in a later
\* local session, whose validation request the backend answers, is accepted
\* and returned with the token that was written, without a login.
C14_CacheRoundTrip ==
    \A u \in Handled :
        (is_local /\ WrittenEarlier(u) /\ auth_log[u].validation # "no answer") =>
            /\ auth_log[u].validation = "accepted"
            /\ ~LoggedIn(u)
            /\ login_count[u] = 0
            /\ JsonString(auth_log[u].returned.token) = auth_log[u].file.token
            /\ auth_log[u].returned.user_email = u

\* The second session reused what the first one wrote.
C14_Witness ==
    /\ is_local
    /\ session_no = 2
    /\ \E u \in Handled :
         /\ WrittenEarlier(u)
         /\ auth_log[u].file.expires_at = 1 + TokenDays
         /\ ~LoggedIn(u)
         /\ auth_log[u].returned.token = IssuedToken(u)

(***************************************************************************)
(* Properties of the worker mapping (SpecMapper).                          *)
(***************************************************************************)
MapperCalls == {mapper_calls[i] : i \in 1..Len(mapper_calls)}
ResolveCalls == {c \in MapperCalls : c.fn = "get_user_for_worker"}
ExtractCalls == {c \in MapperCalls : c.fn = "extract_worker_number"}
NeededCalls == {c \in MapperCalls : c.fn = "determine_needed_users"}

\* The ordinals k of the well-formed worker ids gw<k>.
Ordinals == 0..MaxWorkerNum
GwId(k) == "gw" \o ToString(k)
OrdinalOf(wid) == CHOOSE k \in Ordinals : GwId(k) = wid
IsGwId(wid) == \E k \in Ordinals : GwId(k) = wid

\* The pool of a role when N users per role are configured.
Pool(role, N) == {get_user_email(role, n) : n \in 1..N}

C16_SlotIsOrdinalModPoolSize ==
    \A c \in ResolveCalls :
        IsGwId(c.worker_id) =>
            /\ c.raised = None
            /\ c.result = get_user_email(c.role, (OrdinalOf(c.worker_id) % c.num_workers) + 1)
            /\ c.result \in Pool(c.role, c.num_workers)

\* C17: with N users per role configured and more than N workers, the
\* identities of a role resolved for gw0..gw(W-1) are at most N and all lie
\* in the pool 1..N of the role.
C17_AliasingBound ==
    \A c \in ResolveCalls :
        IsGwId(c.worker_id) /\ OrdinalOf(c.worker_id) >= c.num_workers =>
            LET W == OrdinalOf(c.worker_id) + 1
                ids == {get_user_for_worker(c.role, GwId(i)) : i \in 0..(W - 1)}
            IN  /\ c.result \in Pool(c.role, c.num_workers)
                /\ ids \subseteq Pool(c.role, c.num_workers)
                /\ Cardinality(ids) <= c.num_workers

\* A worker id that starts with "gw" without a number after it.
Malformed(wid) == StartsWith(wid, "gw") /\ ~IsDigits(SubSeq(wid, 3, Len(wid)))

\* C18: extract_worker_number never raises and returns a non-negative
\* ordinal, which is 0 for "master", for an id that does not start with "gw"
\* and for an id that starts with "gw" without a valid number after it.
C18_ExtractIsTotal ==
    \A c \in ExtractCalls :
        /\ c.raised = None
        /\ c.result >= 0
        /\ (IsSentinel(c.worker_id) \/ Malformed(c.worker_id) => c.result = 0)

\* The roles the tests of a selection declare; a test without a marker
\* declares ADMIN.
Declared(test_items, role) ==
    \E i \in 1..Len(test_items) :
        test_items[i] = role \/ (test_items[i] = NoMarker /\ role = "ADMIN")

\* C19: determine_needed_users returns exactly the identities that
\* get_user_for_worker gives gw0..gw(NUM_WORKERS-1) for the roles the selected
\* tests declare (no marker counts as ADMIN), so no identity of a role that
\* no selected test declares is returned.
C19_NeededUsersAreTheDeclaredRoles ==
    \A c \in NeededCalls :
        /\ c.raised = None
        /\ \A role \in Roles : \A i \in 0..(c.num_workers - 1) :
              Declared(c.test_items, role) <=>
                  get_user_email(role, UserNumber(i)) \in c.result
        /\ \A u \in c.result : Declared(c.test_items, get_user_by_email(u).role)

\* A session of VIEWER tests only, with two workers: viewer1 and viewer2 are
\* needed and nothing else.
C19_Witness ==
    \E c \in NeededCalls :
        /\ c.test_items = <<"VIEWER", "VIEWER">>
        /\ c.num_workers = 2
        /\ c.result = {get_user_email("VIEWER", 1), get_user_email("VIEWER", 2)}

(***************************************************************************)
(* Order of credentials and seed calls (SpecSession).                      *)
(***************************************************************************)
\* C20: in a session, every list or create call for seed data of a user is
\* made after get_valid_auth_state returned for that user, with the token it
\* returned; the same holds for the call of create_seed_items_for_user that
\* is in progress.
C20_SeedAfterCredential ==
    /\ \A u \in DOMAIN seed_log :
          seed_log[u].looked_up \/ seed_log[u].creates # {} \/ seed_log[u].tokens # {} =>
              /\ u \in Handled
              /\ Returned(u)
              /\ seed_log[u].tokens \subseteq {auth_log[u].returned.token}
    /\ seed_call # NoCall =>
          /\ seed_call.user \in Handled
          /\ Returned(seed_call.user)
          /\ seed_call.token = auth_log[seed_call.user].returned.token

\* The seed call of the second user is creating items after the items of
\* the first user were created, each with the token of its own login.
C20_Witness ==
    /\ Len(auth_order) = 2
    /\ seed_call # NoCall
    /\ seed_call.user = auth_order[2]
    /\ seed_log[auth_order[2]].creates # {}
    /\ seed_log[auth_order[1]].creates # {}
    /\ LoggedIn(auth_order[1]) /\ LoggedIn(auth_order[2])
    /\ seed_call.token = IssuedToken(auth_order[2])
    /\ seed_log[auth_order[1]].tokens = {IssuedToken(auth_order[1])}

(***************************************************************************)
(* Properties of APIClient calls (SpecClient, SpecClientLive).             *)
(***************************************************************************)
\* The attempts of the call that failed with something else than a 409 to
\* create_item.
FailedAttempts ==
    {i \in 1..Len(client_log) :
        /\ client_log[i] # HTTP_OK
        /\ ~(client_call.fn = "create_item" /\ client_log[i] = HTTP_CONFLICT)}

\* What the call ends with when its retries are used up; login wraps the
\* APIException of _request in AuthenticationException (lines 164-168).
TerminalFailure ==
    IF client_call.fn = "login" THEN "AuthenticationException" ELSE "APIException"

AttemptsBounded ==
    IF client_call = NoCall THEN TRUE
    ELSE /\ Len(client_log) <= MaxRetries
         /\ client_call.attempt <= MaxRetries
         \* one sleep of one second between two attempts
         /\ client_call.sleeps =
               (IF ClientPending THEN Len(client_log) ELSE Len(client_log) - 1)
         \* three failed attempts end the call in the terminal failure
         /\ (Cardinality(FailedAttempts) = MaxRetries =>
                ClientOver /\ client_call.outcome = TerminalFailure)
         \* and nothing less does
         /\ (client_call.outcome = "APIException" =>
                Cardinality(FailedAttempts) = MaxRetries)
         /\ client_call.outcome \in {"pending", "returned", "HTTPError", "APIException",
                                     "AuthenticationException"}

\* C21: every call made through APIClient makes at most 3 attempts, sleeps
\* once between two attempts, ends in the terminal APIException after the
\* third failed attempt, and always comes to an end.
C21_CallsTerminate ==
    /\ []AttemptsBounded
    /\ ClientPending ~> ClientOver

\* get_all_items ended in APIException after three attempts without answer.
C21_Witness ==
    /\ client_call # NoCall
    /\ client_call.fn = "get_all_items"
    /\ client_call.outcome = "APIException"
    /\ client_log = <<NO_RESPONSE, NO_RESPONSE, NO_RESPONSE>>
    /\ client_call.sleeps = 2

\* C25: create_item makes no further request after a 409: the 409 is the
\* last answer of the call, which ends at once in HTTPError, an outcome other
\* than the APIException it ends in after three attempts that failed
\* otherwise.
C25_ConflictIsNotRetried ==
    IF client_call = NoCall THEN TRUE
    ELSE client_call.fn = "create_item" =>
           /\ \A i \in 1..Len(client_log) :
                 client_log[i] = HTTP_CONFLICT =>
                     /\ i = Len(client_log)
                     /\ ClientOver
                     /\ client_call.outcome = "HTTPError"
           /\ (client_call.outcome = "HTTPError" =>
                  client_log[Len(client_log)] = HTTP_CONFLICT)
           /\ (client_call.outcome = "APIException" =>
                  /\ Len(client_log) = MaxRetries
                  /\ \A i \in 1..Len(client_log) : client_log[i] # HTTP_CONFLICT)

\* The second attempt of a create_item call got the 409 and was the last.
C25_Witness ==
    /\ client_call # NoCall
    /\ client_call.fn = "create_item"
    /\ Len(client_log) = 2
    /\ client_log[1] \in ErrorStatuses
    /\ client_log[2] = HTTP_CONFLICT
    /\ client_call.outcome = "HTTPError"

(***************************************************************************)
(* Logins that yield no token (SpecSession).                               *)
(***************************************************************************)
\* C22: a login that yielded no token raises for its user: the call of
\* get_valid_auth_state returns no auth state and the auth file is left as
\* it was found.
C22_LoginWithoutTokenRaises ==
    \A u \in Handled :
        auth_log[u].login = "no token" =>
            /\ ~Returned(u)
            /\ Persisted(u) = auth_log[u].file

\* C29: every auth state get_valid_auth_state returned, and every auth file
\* a login wrote, holds a token that is neither null nor empty.
C29_TokenNeverMissing ==
    \A u \in Handled :
        /\ (Returned(u) => ~TokenMissing(auth_log[u].returned.token))
        /\ (LoggedIn(u) /\ Persisted(u) # NoFile =>
               ~TokenMissing(json_load(Persisted(u)).token))

(***************************************************************************)
(* Processes sharing the auth file (SpecCache).                            *)
(***************************************************************************)
\* C24: under every interleaving of the reads and writes of the auth file
\* by processes that run get_valid_auth_state for the same user, no process
\* raises, and a process that returned holds either the loaded auth state,
\* whose token passed validation, or the auth state of its own login.
C24_ConcurrentCacheUse ==
    \A p \in CacheProcs :
        /\ cache_proc[p].pc # "raised"
        /\ (cache_proc[p].pc = "returned" =>
               \/ /\ cache_proc[p].how = "validated"
                  /\ cache_proc[p].result = cache_proc[p].loaded
                  /\ Authorized(cache_proc[p].result.token)
               \/ /\ cache_proc[p].how = "logged in"
                  /\ cache_proc[p].result.token = LoginToken(p))

(***************************************************************************)
(* The identity of a test and the credentials of the session               *)
(* (SpecSession).                                                          *)
(***************************************************************************)
\* C23: a test whose user has no entry in auth_states ends in an error of
\* its fixtures: no test body runs with a context of that user, and none
\* with an empty token.
C23_NoContextWithoutCredential ==
    \A i \in 1..Len(tests) :
        Finished(i) =>
            /\ (TestUser(i) \notin DOMAIN auth_states_dict => tests[i].result # "ran")
            /\ (tests[i].result = "ran" => tests[i].token # "")

\* C28: the user the per-test fixtures resolve for a test on the worker of
\* the session is one of the users determine_needed_users computed for the
\* session, so that auth_states has an entry for it once the fixture is set
\* up.
C28_ResolvedUserIsNeeded ==
    \A i \in 1..Len(tests) :
        /\ TestUser(i) \in determine_needed_users(roles_needed)
        /\ (auth_phase = "done" => TestUser(i) \in DOMAIN auth_states_dict)

(***************************************************************************)
(* The name that is looked up and the name that is created                 *)
(* (SpecManager).                                                          *)
(***************************************************************************)
\* SeedDataManager.check_existing_seed_items (utils/seed_data_manager.py,
\* lines 27-75) on the items its list call returned: the mapping from seed
\* key to the item named test_data.generate_seed_item_name(role, number,
\* item_type).
check_existing_seed_items(all_items, email) ==
    LET user == get_user_by_email(email)
        expected_name(i) ==
            generate_seed_item_name(Lower(user.role), user.number, ItemTypes[i])
        found == {i \in 1..Len(ItemTypes) : NameTaken(all_items, expected_name(i))}
    IN  [k \in {Lower(ItemTypes[i]) : i \in found} |->
            CHOOSE it \in all_items :
                \E i \in found : k = Lower(ItemTypes[i]) /\ it.name = expected_name(i)]

\* C27: a record the provisioner created for a user, under the name
\* _create_admin_base_items / _create_editor_items give it, is among the
\* records a lookup of that user's seed items finds, because the lookup
\* searches for the same name.
C27_CreatedRecordIsFoundByLookup ==
    \A w \in Callers : \A it \in items :
        it.name \in log[w].creates =>
            LET all_items == ListItems(items, user_email[w], SEED_DATA_PREFIX, "all")
                existing == check_existing_seed_items(all_items, user_email[w])
            IN  \E k \in DOMAIN existing : existing[k] = it

(***************************************************************************)
(* Repeated seed calls of the session fixtures (SpecSession).              *)
(***************************************************************************)
\* C26: in a local run in which no backend call fails,
\* create_seed_items_for_user issues no create call for a seed type whose
\* record the backend already holds, binds every such type to the record
\* that exists, and creates exactly the missing types; a call against the
\* records an earlier call left issues no create call at all.
C26_SeedCallIsIdempotent ==
    is_local /\ faults = 0 =>
        \A u \in DOMAIN seed_log :
            /\ seed_log[u].creates \cap seed_log[u].existed = {}
            /\ (SeedCallReturned(u) =>
                   /\ seed_log[u].creates = SeedKeys \ seed_log[u].existed
                   /\ \A k \in seed_log[u].existed :
                         /\ k \in DOMAIN seed_items_dict[u]
                         /\ seed_items_dict[u][k] \in items
                         /\ seed_items_dict[u][k].name = ExpectedName(u, k))

(***************************************************************************)
(* Collisions within the pool (SpecMapper).                                *)
(***************************************************************************)
\* C30: for a worker gw<k> with k below the pool size of 8,
\* get_user_for_worker returns the user of slot k + 1 of the role, which no
\* other worker gw<j> with j below the pool size is mapped to; "master" is
\* mapped to the user of gw0.
C30_NoCollisionWithinPool ==
    \A c \in ResolveCalls :
        /\ (IsGwId(c.worker_id) /\ OrdinalOf(c.worker_id) < PoolSize =>
               /\ c.raised = None
               /\ c.result = get_user_email(c.role, OrdinalOf(c.worker_id) + 1)
               /\ \A j \in 0..(PoolSize - 1) :
                     j # OrdinalOf(c.worker_id) =>
                         c.result # get_user_for_worker(c.role, GwId(j)))
        /\ (c.worker_id = "master" =>
               /\ c.raised = None
               /\ c.result = get_user_for_worker(c.role, GwId(0))
               /\ c.result = get_user_email(c.role, 1))

\* The last worker of a full pool, gw7, was resolved to slot 8.
C30_Witness ==
    \E c \in ResolveCalls :
        /\ c.worker_id = GwId(PoolSize - 1)
        /\ c.raised = None
        /\ c.result = get_user_email(c.role, PoolSize)

=============================================================================
